---- MODULE Spec2Model ----
(***************************************************************************)
(* The log-structured key/value engine of src/src/kv.rs (KvStore) and the  *)
(* server that shares one engine between connection workers                *)
(* (src/src/server.rs, src/src/connection.rs).                             *)
(*                                                                         *)
(* A log file is a sequence of bytes.  A byte of the model is one token of *)
(* the serde_json text of a Command: the variant tag and each string.      *)
(*   Command::Set(k, v)  is written  {"Set":["k","v"]}   = <<"Set", k, v>> *)
(*   Command::Remove(k)  is written  {"Remove":"k"}      = <<"Remove", k>> *)
(* so a Set record is 3 bytes long and a Remove record 2, records follow   *)
(* each other without separator, and the decoder finds the end of a record *)
(* from its tag.  Offsets, lengths, and COMPACTION_THRESHOLD count these   *)
(* bytes.                                                                  *)
(***************************************************************************)
EXTENDS Integers, Sequences, FiniteSets, TLC

\* The strings a log can hold, in the order of String's Ord: the order in
\* which a BTreeMap<String, _> is iterated.
StrOrder == <<"1", "2", "a", "b">>

Keys == {"a", "b"}

Vals == {"1", "2"}

\* kv.rs:17 is 1024 * 1024; scaled with the record sizes (3 and 2), so that
\* one shadowed Set record is enough to exceed it.
COMPACTION_THRESHOLD == 2

\* Generations are capped: open uses one, a compaction two.
MaxGen == 4

\* The process stops in the middle of a write, or the file system fails,
\* only while the store is at one of the first generations.
MaxCrashGen == 1

Min(x, y) == IF x < y THEN x ELSE y

-----------------------------------------------------------------------------
(* Commands and their encoding (serde_json::to_writer / Deserializer).     *)

Tags == {"Set", "Remove"}

CmdSet(k, v) == [type |-> "Set", key |-> k, value |-> v]

CmdRemove(k) == [type |-> "Remove", key |-> k, value |-> ""]

NoCmd == [type |-> "", key |-> "", value |-> ""]

\* serde_json::to_writer(&mut writer, &cmd)
to_writer(cmd) ==
    IF cmd.type = "Set" THEN <<"Set", cmd.key, cmd.value>>
    ELSE <<"Remove", cmd.key>>

\* One step of the JSON deserializer: the value that starts at byte offset
\* `at` of `b`.  kind is "ok" (cmd, ending at byte offset end), "eof" (no
\* byte left at `at`) or "err" (not the text of a Command; end is the offset
\* the parser had reached).
ParseCommand(b, at) ==
    LET n == Len(b)
        str(i) == i <= n /\ b[i] \notin Tags
    IN  IF at >= n THEN [kind |-> "eof", cmd |-> NoCmd, end |-> at]
        ELSE IF b[at + 1] = "Set" THEN
            IF str(at + 2) /\ str(at + 3)
            THEN [kind |-> "ok", cmd |-> CmdSet(b[at + 2], b[at + 3]), end |-> at + 3]
            ELSE [kind |-> "err", cmd |-> NoCmd,
                  end |-> IF str(at + 2) THEN Min(at + 3, n) ELSE Min(at + 2, n)]
        ELSE IF b[at + 1] = "Remove" THEN
            IF str(at + 2)
            THEN [kind |-> "ok", cmd |-> CmdRemove(b[at + 2]), end |-> at + 2]
            ELSE [kind |-> "err", cmd |-> NoCmd, end |-> Min(at + 2, n)]
        ELSE [kind |-> "err", cmd |-> NoCmd, end |-> at + 1]

\* serde_json::from_reader(r): one Command, then only end of input.  The
\* trailing check peeks one more byte of the reader.
from_reader(b) ==
    LET p == ParseCommand(b, 0)
    IN  IF p.kind = "ok" /\ p.end < Len(b)
        THEN [kind |-> "err", cmd |-> NoCmd, end |-> p.end + 1]
        ELSE IF p.kind = "eof" THEN [p EXCEPT !.kind = "err"]
        ELSE p

-----------------------------------------------------------------------------
(* CommandOps, the readers and the writer.                                 *)

\* impl From<(u64, Range<u64>)> for CommandOps
CommandOps(gen, start, end) == [gen |-> gen, offset |-> start, len |-> end - start]

\* BufReaderWithOps::new: the tracked offset and the file position are 0.
\* `offset` is the field of the struct; `pos` is the position of the
\* BufReader it wraps.
BufReaderWithOps_new == [offset |-> 0, pos |-> 0]

\* Seek for BufReaderWithOps: moves the reader and records where.
reader_seek(r, to) == [offset |-> to, pos |-> to]

\* Read for BufReaderWithOps through take(len): up to len bytes of the file
\* from the reader's position; the position advances, self.offset does not.
reader_take(file, r, len) ==
    SubSeq(file, r.pos + 1, Min(r.pos + len, Len(file)))

reader_read(r, n) == [r EXCEPT !.pos = r.pos + n]

\* BufWriterWithOps::new: offset 0, whatever the file already holds.
BufWriterWithOps_new(gen) == [gen |-> gen, offset |-> 0]

\* Functions with a finite domain, as maps.
Put(f, k, v) == [x \in DOMAIN f \cup {k} |-> IF x = k THEN v ELSE f[x]]

Del(f, k) == [x \in DOMAIN f \ {k} |-> f[x]]

Empty == [x \in {} |-> 0]

\* Result<_> of an engine call: Ok(()) and Ok(None), Ok(Some(v)), Err(e).
OkNone == [tag |-> "Ok", some |-> FALSE, val |-> ""]

OkSome(v) == [tag |-> "Ok", some |-> TRUE, val |-> v]

Err(e) == [tag |-> "Err", some |-> FALSE, val |-> e]

-----------------------------------------------------------------------------
(* The engine.  A store s is the record of the KvStore fields plus the     *)
(* directory: files (gen -> bytes of {gen}.log), writer, readers, index,   *)
(* current_gen, uncompacted.                                               *)

\* gen_list: the generations of the directory's log files, ascending.
RECURSIVE SortedSeq(_)
SortedSeq(S) ==
    IF S = {} THEN <<>>
    ELSE LET m == CHOOSE x \in S : \A y \in S : x <= y
         IN  <<m>> \o SortedSeq(S \ {m})

gen_list(files) == SortedSeq(DOMAIN files)

\* new_log_file: opens {gen}.log with create + append, registers a fresh
\* reader for it and returns the store with `writer` left to the caller.
new_log_file(s, gen) ==
    [s EXCEPT !.files = IF gen \in DOMAIN s.files THEN s.files
                        ELSE Put(s.files, gen, <<>>),
              !.readers = Put(s.readers, gen, BufReaderWithOps_new)]

\* load: replays one log file from offset 0 into the index; the bytes a
\* compaction could save are summed.  ok is FALSE when a record does not
\* decode (cmd? returns the error).
RECURSIVE load_from(_, _, _, _, _)
load_from(gen, file, offset, index, uncompacted) ==
    LET p == ParseCommand(file, offset)
        key == p.cmd.key
        old == IF key \in DOMAIN index THEN index[key].len ELSE 0
    IN  IF p.kind = "eof"
        THEN [ok |-> TRUE, index |-> index, uncompacted |-> uncompacted]
        ELSE IF p.kind = "err"
        THEN [ok |-> FALSE, index |-> index, uncompacted |-> uncompacted]
        ELSE IF p.cmd.type = "Set"
        THEN load_from(gen, file, p.end,
                       Put(index, key, CommandOps(gen, offset, p.end)),
                       uncompacted + old)
        ELSE load_from(gen, file, p.end, Del(index, key),
                       uncompacted + old + (p.end - offset))

load(gen, index, file) == load_from(gen, file, 0, index, 0)

\* KvStore::open, the replay loop over gen_list: the reader of each file is
\* left where load left it (sought to 0, then read to the end of the file).
RECURSIVE open_replay(_, _, _, _, _)
open_replay(files, gens, readers, index, uncompacted) ==
    IF gens = <<>>
    THEN [ok |-> TRUE, readers |-> readers, index |-> index,
          uncompacted |-> uncompacted]
    ELSE LET gen == Head(gens)
             l == load(gen, index, files[gen])
             reader == reader_read(reader_seek(BufReaderWithOps_new, 0),
                                   Len(files[gen]))
         IN  IF ~l.ok
             THEN [ok |-> FALSE, readers |-> readers, index |-> index,
                   uncompacted |-> uncompacted]
             ELSE open_replay(files, Tail(gens), Put(readers, gen, reader),
                              l.index, uncompacted + l.uncompacted)

\* An open that writes to the last generation it found.
open_reuse(files) ==
    LET gens == gen_list(files)
        r == open_replay(files, gens, Empty, Empty, 0)
        current_gen == IF gens = <<>> THEN 1 ELSE gens[Len(gens)]
        s == [files |-> files, readers |-> r.readers, index |-> r.index,
              current_gen |-> current_gen, uncompacted |-> r.uncompacted,
              writer |-> BufWriterWithOps_new(current_gen)]
    IN  [ok |-> r.ok, s |-> new_log_file(s, current_gen)]

\* KvStore::open
open(files) ==
    LET gens == gen_list(files)
        r == open_replay(files, gens, Empty, Empty, 0)
        current_gen == (IF gens = <<>> THEN 0 ELSE gens[Len(gens)]) + 1
        s == [files |-> files, readers |-> r.readers, index |-> r.index,
              current_gen |-> current_gen, uncompacted |-> r.uncompacted,
              writer |-> BufWriterWithOps_new(current_gen)]
    IN  [ok |-> r.ok, s |-> new_log_file(s, current_gen)]

\* The writer appends to its file (append mode) and counts the bytes.
writer_write(s, bytes) ==
    [s EXCEPT !.files[s.writer.gen] = @ \o bytes,
              !.writer.offset = @ + Len(bytes)]

\* KvStore::compact, the copy loop over &mut self.index: i is the position
\* in the key order, out the bytes given to compaction_writer so far.
RECURSIVE compact_copy(_, _, _, _)
compact_copy(s, i, compaction_gen, out) ==
    IF i > Len(StrOrder) THEN [s |-> s, out |-> out]
    ELSE IF StrOrder[i] \notin DOMAIN s.index
    THEN compact_copy(s, i + 1, compaction_gen, out)
    ELSE LET cmd_ops == s.index[StrOrder[i]]
             r0 == s.readers[cmd_ops.gen]
             r1 == IF r0.offset # cmd_ops.offset
                   THEN reader_seek(r0, cmd_ops.offset) ELSE r0
             data == reader_take(s.files[cmd_ops.gen], r1, cmd_ops.len)
             ops == Len(out)
             s1 == [s EXCEPT !.readers[cmd_ops.gen] = reader_read(r1, Len(data)),
                             !.index[StrOrder[i]] =
                                 CommandOps(compaction_gen, ops, ops + Len(data))]
         IN  compact_copy(s1, i + 1, compaction_gen, out \o data)

\* A compaction that drops the stale readers and leaves their files.
compact_keep(s) ==
    LET compaction_gen == s.current_gen + 1
        s1 == [new_log_file([s EXCEPT !.current_gen = @ + 2], s.current_gen + 2)
                 EXCEPT !.writer = BufWriterWithOps_new(s.current_gen + 2)]
        s2 == new_log_file(s1, compaction_gen)
        c == compact_copy(s2, 1, compaction_gen, <<>>)
        s3 == [c.s EXCEPT !.files[compaction_gen] = @ \o c.out]
        stale_gens == {gen \in DOMAIN s3.readers : gen < compaction_gen}
    IN  [s3 EXCEPT !.readers = [g \in DOMAIN s3.readers \ stale_gens |-> s3.readers[g]],
                   !.uncompacted = 0]

\* KvStore::compact
compact(s) ==
    LET compaction_gen == s.current_gen + 1
        s1 == [new_log_file([s EXCEPT !.current_gen = @ + 2], s.current_gen + 2)
                 EXCEPT !.writer = BufWriterWithOps_new(s.current_gen + 2)]
        s2 == new_log_file(s1, compaction_gen)
        c == compact_copy(s2, 1, compaction_gen, <<>>)
        s3 == [c.s EXCEPT !.files[compaction_gen] = @ \o c.out]
        stale_gens == {gen \in DOMAIN s3.readers : gen < compaction_gen}
    IN  [s3 EXCEPT !.readers = [g \in DOMAIN s3.readers \ stale_gens |-> s3.readers[g]],
                   !.files = [g \in DOMAIN s3.files \ stale_gens |-> s3.files[g]],
                   !.uncompacted = 0]

\* The points of compact at which a `?` can return an I/O error: the
\* creation of the writer's new file, the creation of the compaction file,
\* the copy of the record at position i of the key order, and the removal
\* of the stale file g after those of `done` were removed.
\* Failures(s) are those of a compaction of store s, whose stale files are
\* the ones that have a reader when it starts.
Failures(s) ==
    {[at |-> a, i |-> 0, done |-> {}, g |-> 0] : a \in {"writer", "compaction"}}
        \cup {[at |-> "copy", i |-> i, done |-> {}, g |-> 0] :
                 i \in {j \in 1..Len(StrOrder) : StrOrder[j] \in DOMAIN s.index}}
        \cup UNION {{[at |-> "delete", i |-> 0, done |-> d, g |-> g] :
                        d \in SUBSET (DOMAIN s.readers \ {g})} :
                     g \in DOMAIN s.readers}

\* KvStore::compact returning Err at failure f: what the statements before
\* the failing `?` have done stays done.  The compaction_writer is dropped
\* and its buffer flushed; UncompactedBytes is not reset.
compact_fail(s, f) ==
    LET compaction_gen == s.current_gen + 1
        s0 == [s EXCEPT !.current_gen = @ + 2]
        s1 == [new_log_file(s0, s0.current_gen)
                 EXCEPT !.writer = BufWriterWithOps_new(s0.current_gen)]
        s2 == new_log_file(s1, compaction_gen)
        first == IF f.at = "copy" THEN {StrOrder[j] : j \in 1..(f.i - 1)} ELSE Keys
        part == [k \in DOMAIN s2.index \cap first |-> s2.index[k]]
        c == compact_copy([s2 EXCEPT !.index = part], 1, compaction_gen, <<>>)
        s3 == [c.s EXCEPT !.files[compaction_gen] = @ \o c.out,
                          !.index = [k \in DOMAIN s2.index |->
                                        IF k \in first THEN c.s.index[k]
                                        ELSE s2.index[k]]]
        gone == f.done \cup {f.g}
    IN  IF f.at = "writer" THEN s0
        ELSE IF f.at = "compaction" THEN s1
        ELSE IF f.at = "copy" THEN s3
        ELSE [s3 EXCEPT !.readers = [g \in DOMAIN s3.readers \ gone |-> s3.readers[g]],
                        !.files = [g \in DOMAIN s3.files \ f.done |-> s3.files[g]]]

\* set(key, val) panics: it compacts, and the copy loop comes to a locator
\* whose generation has no reader (expect("Cannot find log reader")).
set_panics(s, key, val) ==
    LET old == IF key \in DOMAIN s.index THEN s.index[key].len ELSE 0
        has == DOMAIN s.readers \cup {s.current_gen + 1, s.current_gen + 2}
    IN  /\ s.uncompacted + old > COMPACTION_THRESHOLD
        /\ \/ s.current_gen \notin has
           \/ \E k \in DOMAIN s.index \ {key} : s.index[k].gen \notin has

\* The directory when the process stops inside compact's copy loop, before
\* any older file is removed: both new files exist and n bytes of what the
\* loop gives to compaction_writer have reached the compaction_gen file.
compact_crash(s, n) ==
    LET compaction_gen == s.current_gen + 1
        s1 == new_log_file([s EXCEPT !.current_gen = @ + 2], s.current_gen + 2)
        s2 == new_log_file(s1, compaction_gen)
        c == compact_copy(s2, 1, compaction_gen, <<>>)
    IN  [s2.files EXCEPT ![compaction_gen] = @ \o SubSeq(c.out, 1, Min(n, Len(c.out)))]

\* The directory when the process stops inside compact's removal of the
\* stale files, those of `done` removed: the compaction file is flushed.
\* stale_gens comes from the keys of a HashMap, in no particular order.
cleanup_crash(s, done) ==
    LET compaction_gen == s.current_gen + 1
        s1 == new_log_file([s EXCEPT !.current_gen = @ + 2], s.current_gen + 2)
        s2 == new_log_file(s1, compaction_gen)
        c == compact_copy(s2, 1, compaction_gen, <<>>)
        s3 == [c.s EXCEPT !.files[compaction_gen] = @ \o c.out]
    IN  [g \in DOMAIN s3.files \ done |-> s3.files[g]]

\* The directory when the process stops inside set's write of its record:
\* n bytes of the record have reached the writer's file.
set_crash(s, key, val, n) ==
    [s.files EXCEPT ![s.writer.gen] = @ \o SubSeq(to_writer(CmdSet(key, val)), 1, n)]

\* set without its compaction trigger.
set_no_compact(s, key, val) ==
    LET ops == s.writer.offset
        s1 == writer_write(s, to_writer(CmdSet(key, val)))
        old == IF key \in DOMAIN s.index THEN s.index[key].len ELSE 0
        s2 == [s1 EXCEPT !.index = Put(s.index, key,
                                       CommandOps(s.current_gen, ops, s1.writer.offset)),
                         !.uncompacted = @ + old]
    IN  [s |-> s2, res |-> OkNone, compacted |-> FALSE, mid |-> s2]

\* KvStore::set
set(s, key, val) ==
    LET ops == s.writer.offset
        s1 == writer_write(s, to_writer(CmdSet(key, val)))
        old == IF key \in DOMAIN s.index THEN s.index[key].len ELSE 0
        s2 == [s1 EXCEPT !.index = Put(s.index, key,
                                       CommandOps(s.current_gen, ops, s1.writer.offset)),
                         !.uncompacted = @ + old]
        compacts == s2.uncompacted > COMPACTION_THRESHOLD
    IN  [s |-> IF compacts THEN compact(s2) ELSE s2, res |-> OkNone,
         compacted |-> compacts, mid |-> s2]

\* KvStore::get
get(s, key) ==
    IF key \notin DOMAIN s.index THEN [s |-> s, res |-> OkNone]
    ELSE LET ops == s.index[key]
             r1 == reader_seek(s.readers[ops.gen], ops.offset)
             p == from_reader(reader_take(s.files[ops.gen], r1, ops.len))
         IN  [s |-> [s EXCEPT !.readers[ops.gen] = reader_read(r1, p.end)],
              res |-> IF p.kind # "ok" THEN Err("Serde")
                      ELSE IF p.cmd.type = "Set" THEN OkSome(p.cmd.value)
                      ELSE Err("UnexpectedCommandType")]

\* remove without the contains_key test: the record is written anyway.
remove_unguarded(s, key) ==
    LET ops == s.writer.offset
        s1 == writer_write(s, to_writer(CmdRemove(key)))
        old == IF key \in DOMAIN s.index THEN s.index[key].len ELSE 0
    IN  [s |-> [s1 EXCEPT !.uncompacted = @ + (s1.writer.offset - ops) + old,
                          !.index = Del(s.index, key)],
         res |-> OkNone]

\* KvStore::remove
remove(s, key) ==
    IF key \in DOMAIN s.index
    THEN LET ops == s.writer.offset
             s1 == writer_write(s, to_writer(CmdRemove(key)))
         IN  [s |-> [s1 EXCEPT !.uncompacted = @ + (s1.writer.offset - ops)
                                                 + s.index[key].len,
                               !.index = Del(s.index, key)],
              res |-> OkNone]
    ELSE [s |-> s, res |-> Err("KeyNotFound")]

-----------------------------------------------------------------------------
(* State.                                                                  *)

VARIABLES
    files,        \* the directory: gen -> bytes of {gen}.log
    store_open,   \* a KvStore value exists (between open and its drop)
    writer,       \* KvStore.writer: [gen, offset]
    readers,      \* KvStore.readers: gen -> [offset, pos]
    index,        \* KvStore.index: key -> CommandOps
    current_gen,  \* KvStore.current_gen
    uncompacted,  \* KvStore.uncompacted
    gate,         \* the Mutex<KvStore>: the connection that holds it, or 0
    pc,           \* per connection, where its worker is in Connection::serve
    req,          \* per connection, the Request being served
    resp,         \* per connection, the Response being sent
    inq,          \* per connection, the Requests in the socket, not yet decoded
    outq,         \* per connection, the Responses written to the socket
    script,       \* per connection, what its client is still going to send
    decoded,      \* per connection, the Requests decoded so far
    answered,     \* per connection, each Request served with its Response
    wbuf,         \* per connection, the Requests in the Client's BufWriter
    cpc,          \* per connection, where its Client is: "idle" or in a "read"
    returned,     \* per connection, the Client calls that returned, with results
    lastOp,       \* the last engine call made and what it returned
    model         \* per key, the last set/remove that returned Ok

engine == <<files, store_open, writer, readers, index, current_gen, uncompacted>>

client == <<wbuf, cpc, returned>>

server == <<gate, pc, req, resp, inq, outq, script, decoded, answered, wbuf, cpc,
            returned>>

vars == <<files, store_open, writer, readers, index, current_gen, uncompacted,
          gate, pc, req, resp, inq, outq, script, decoded, answered, wbuf, cpc,
          returned, lastOp, model>>

\* The store as the record the engine operators work on.
Store ==
    [files |-> files, writer |-> writer, readers |-> readers, index |-> index,
     current_gen |-> current_gen, uncompacted |-> uncompacted]

Install(s) ==
    /\ files' = s.files
    /\ writer' = s.writer
    /\ readers' = s.readers
    /\ index' = s.index
    /\ current_gen' = s.current_gen
    /\ uncompacted' = s.uncompacted

\* What get(key) returns in store s, for every key.
GetAll(s) == [k \in Keys |-> get(s, k).res]

NoView == [k \in Keys |-> OkNone]

\* A call of connection conn's worker (0: a direct caller of the store).
Op(op, key, val, res, compacted, before, conn) ==
    [op |-> op, key |-> key, val |-> val, res |-> res,
     compacted |-> compacted, before |-> before, conn |-> conn]

\* model[k]: st is "never", "set" (to val) or "removed"; old: the store was
\* closed since; by: the connection whose worker made the call.
NeverSet == [st |-> "never", val |-> "", old |-> FALSE, by |-> 0]

Conns == {1, 2}

\* common.rs: Request
ReqSet(k, v) == [type |-> "Set", key |-> k, value |-> v]

ReqGet(k) == [type |-> "Get", key |-> k, value |-> ""]

ReqRemove(k) == [type |-> "Remove", key |-> k, value |-> ""]

\* Bytes on the stream that are not the text of a Request.
BadReq == [type |-> "Bad", key |-> "", value |-> ""]

NoReq == [type |-> "", key |-> "", value |-> ""]

ServerIdle ==
    /\ gate = 0
    /\ pc = [c \in Conns |-> "accept"]
    /\ req = [c \in Conns |-> NoReq]
    /\ resp = [c \in Conns |-> OkNone]
    /\ inq = [c \in Conns |-> <<>>]
    /\ outq = [c \in Conns |-> <<>>]
    /\ decoded = [c \in Conns |-> <<>>]
    /\ answered = [c \in Conns |-> <<>>]
    /\ wbuf = [c \in Conns |-> <<>>]
    /\ cpc = [c \in Conns |-> "idle"]
    /\ returned = [c \in Conns |-> <<>>]

Init ==
    /\ files = Empty
    /\ store_open = FALSE
    /\ writer = BufWriterWithOps_new(0)
    /\ readers = Empty
    /\ index = Empty
    /\ current_gen = 0
    /\ uncompacted = 0
    /\ lastOp = Op("init", "", "", OkNone, FALSE, NoView, 0)
    /\ model = [k \in Keys |-> NeverSet]
    /\ ServerIdle
    /\ script = [c \in Conns |-> <<>>]

\* KvStore::open(path) on the directory as it is.  An Err leaves no store
\* and the directory as it was.
Open ==
    /\ ~store_open
    /\ LET o == open(files)
       IN  /\ o.s.current_gen <= MaxGen
           /\ IF o.ok
              THEN /\ Install(o.s)
                   /\ store_open' = TRUE
                   /\ lastOp' = Op("open", "", "", OkNone, FALSE, NoView, 0)
              ELSE /\ UNCHANGED <<files, store_open, writer, readers, index,
                                  current_gen, uncompacted>>
                   /\ lastOp' = Op("open", "", "", Err("Serde"), FALSE, NoView, 0)
    /\ UNCHANGED <<model, server>>

\* The KvStore is dropped: the handles close, the directory stays.
Close ==
    /\ store_open
    /\ store_open' = FALSE
    /\ writer' = BufWriterWithOps_new(0)
    /\ readers' = Empty
    /\ index' = Empty
    /\ current_gen' = 0
    /\ uncompacted' = 0
    /\ lastOp' = Op("close", "", "", OkNone, FALSE, NoView, 0)
    /\ model' = [k \in Keys |-> [model[k] EXCEPT !.old = model[k].st # "never"]]
    /\ UNCHANGED <<files, server>>

Set(key, val) ==
    /\ store_open
    /\ ~set_panics(Store, key, val)
    /\ LET r == set(Store, key, val)
       IN  /\ r.s.current_gen <= MaxGen
           /\ Install(r.s)
           /\ lastOp' = Op("set", key, val, r.res, r.compacted,
                           IF r.compacted THEN GetAll(r.mid) ELSE NoView, 0)
    /\ model' = [model EXCEPT ![key] = [st |-> "set", val |-> val, old |-> FALSE,
                                        by |-> 0]]
    /\ UNCHANGED <<store_open, server>>

Get(key) ==
    /\ store_open
    /\ LET r == get(Store, key)
       IN  /\ Install(r.s)
           /\ lastOp' = Op("get", key, "", r.res, FALSE, NoView, 0)
    /\ UNCHANGED <<store_open, model, server>>

Remove(key) ==
    /\ store_open
    /\ LET r == remove(Store, key)
       IN  /\ Install(r.s)
           /\ lastOp' = Op("remove", key, "", r.res, FALSE, NoView, 0)
           /\ model' = IF r.res = OkNone
                       THEN [model EXCEPT ![key] = [st |-> "removed", val |-> "",
                                                    old |-> FALSE, by |-> 0]]
                       ELSE model
    /\ UNCHANGED <<store_open, server>>

\* KvStore::compact is pub: a caller may run it in any state.
Compact ==
    /\ store_open
    /\ current_gen + 2 <= MaxGen
    /\ Install(compact(Store))
    /\ lastOp' = Op("compact", "", "", OkNone, TRUE, GetAll(Store), 0)
    /\ UNCHANGED <<store_open, model, server>>

\* The process stops: the KvStore is gone, the directory is as the stop
\* left it.
Stop(op, key, val, before) ==
    /\ store_open' = FALSE
    /\ writer' = BufWriterWithOps_new(0)
    /\ readers' = Empty
    /\ index' = Empty
    /\ current_gen' = 0
    /\ uncompacted' = 0
    /\ lastOp' = Op(op, key, val, OkNone, FALSE, before, 0)
    /\ model' = [k \in Keys |-> [model[k] EXCEPT !.old = model[k].st # "never"]]
    /\ UNCHANGED server

\* A crash during set(key, val), n bytes into the write of the record.
CrashSet(key, val, n) ==
    /\ store_open
    /\ current_gen <= MaxCrashGen
    /\ files' = set_crash(Store, key, val, n)
    /\ Stop("crash_set", key, val, GetAll(Store))

\* A crash during the compaction that set(key, val) runs, n bytes into the
\* copy loop's output.
CrashCompact(key, val, n) ==
    /\ store_open
    /\ current_gen <= MaxCrashGen
    /\ LET r == set(Store, key, val)
       IN  /\ r.compacted
           /\ r.s.current_gen <= MaxGen
           /\ n <= Len(r.s.files[r.mid.current_gen + 1])
           /\ files' = compact_crash(r.mid, n)
           /\ Stop("crash_compact", key, val, GetAll(r.mid))

\* set(key, val) returns Err: its record is written and in the index, and
\* the compaction it runs fails at one of its failure points.
SetFail(key, val) ==
    /\ store_open
    /\ current_gen <= MaxCrashGen
    /\ ~set_panics(Store, key, val)
    /\ LET r == set(Store, key, val)
       IN  /\ r.compacted
           /\ \E f \in Failures(r.mid) : Install(compact_fail(r.mid, f))
    /\ lastOp' = Op("set", key, val, Err("Io"), FALSE, NoView, 0)
    /\ model' = [model EXCEPT ![key] = [st |-> "set", val |-> val, old |-> FALSE,
                                        by |-> 0]]
    /\ UNCHANGED <<store_open, server>>

\* A crash during the compaction that set(key, val) runs, in the loop that
\* removes the stale files, those of `done` removed.
CrashCleanup(key, val) ==
    /\ store_open
    /\ ~set_panics(Store, key, val)
    /\ LET r == set(Store, key, val)
       IN  /\ r.compacted
           /\ r.s.current_gen <= MaxGen
           /\ \E done \in SUBSET (DOMAIN r.mid.readers) :
                 /\ files' = cleanup_crash(r.mid, done)
                 /\ Stop("crash_cleanup", key, val, GetAll(open(r.s.files).s))

\* The store used through open, the KvsEngine operations and drop.
Next ==
    \/ Open
    \/ Close
    \/ \E key \in Keys, val \in Vals : Set(key, val)
    \/ \E key \in Keys : Get(key)
    \/ \E key \in Keys : Remove(key)

Spec == Init /\ [][Next]_vars

\* The same, with callers of the public compact as well.
NextCompact ==
    \/ Open
    \/ Close
    \/ \E key \in Keys, val \in Vals : Set(key, val)
    \/ \E key \in Keys : Get(key)
    \/ \E key \in Keys : Remove(key)
    \/ Compact

SpecCompact == Init /\ [][NextCompact]_vars

\* A record is at most this long: a crash can come after 0 to MaxRecord
\* bytes of a write.
MaxRecord == Len(to_writer(CmdSet("a", "1")))

\* What a compaction copies is at most this long.
MaxCopy == Cardinality(Keys) * MaxRecord

\* The store of Spec in a process that can stop in the middle of a set or
\* of a compaction.
NextCrash ==
    \/ Open
    \/ Close
    \/ \E key \in Keys, val \in Vals : Set(key, val)
    \/ \E key \in Keys : Get(key)
    \/ \E key \in Keys : Remove(key)
    \/ \E key \in Keys, val \in Vals, n \in 0..MaxRecord : CrashSet(key, val, n)
    \/ \E key \in Keys, val \in Vals, n \in 0..MaxCopy : CrashCompact(key, val, n)

SpecCrash == Init /\ [][NextCrash]_vars

\* The store of Spec on a file system whose operations can fail during a
\* compaction.
NextFail ==
    \/ Open
    \/ Close
    \/ \E key \in Keys, val \in Vals : Set(key, val)
    \/ \E key \in Keys : Get(key)
    \/ \E key \in Keys : Remove(key)
    \/ \E key \in Keys, val \in Vals : SetFail(key, val)

SpecFail == Init /\ [][NextFail]_vars

\* The store of Spec in a process that can stop while a compaction removes
\* the stale files.
NextCleanup ==
    \/ Open
    \/ Close
    \/ \E key \in Keys, val \in Vals : Set(key, val)
    \/ \E key \in Keys : Get(key)
    \/ \E key \in Keys : Remove(key)
    \/ \E key \in Keys, val \in Vals : CrashCleanup(key, val)

SpecCleanup == Init /\ [][NextCleanup]_vars

-----------------------------------------------------------------------------
(* The server: Server::new opens the store, Server::start spawns a worker  *)
(* per accepted connection, and each worker runs Connection::serve on the  *)
(* same Arc<Mutex<KvStore>>.                                               *)

\* What the clients send: the pipeline of one connection, a writer that
\* overwrites a key, a reader, a client that sends nothing and one whose
\* stream is corrupt.
Pipeline ==
    <<ReqSet("a", "1"), ReqSet("b", "2"), ReqGet("a"), ReqGet("b"),
      ReqRemove("a"), ReqGet("a")>>

Writer == <<ReqSet("a", "2"), ReqSet("b", "1"), ReqSet("b", "2")>>

Reader == <<ReqGet("a"), ReqGet("a")>>

\* A client that sends garbage between two Requests.
Broken == <<ReqGet("a"), BadReq, ReqGet("a")>>

Scripts == {<<>>, Pipeline, Writer, Reader, Broken}

\* error.rs: the Display of a KvsError, as format!("{}", e) gives it.
error_display(e) ==
    IF e = "KeyNotFound" THEN "Key not found"
    ELSE IF e = "UnexpectedCommandType" THEN "Unexpected command type"
    ELSE "serde_json error"

\* Connection::serve, the match arms: the engine call of a Request and the
\* Response made of its result.
serve_call(s, r) ==
    IF r.type = "Set" THEN set(s, r.key, r.value)
    ELSE IF r.type = "Get" THEN get(s, r.key)
    ELSE remove(s, r.key)

serve_response(res) ==
    IF res.tag = "Ok" THEN res ELSE Err(error_display(res.val))

\* A Response that overtakes the ones written before it.
send_resp_front(q, r) == <<r>> \o q

\* send_resp!: the Response is written to the socket and flushed.
send_resp(q, r) == Append(q, r)

\* A lock that does not wait for its holder.
lock_always(g) == TRUE

\* self.db.lock(): the Mutex is free.
lock_free(g) == g = 0

\* Server::new: KvStore::open on an empty directory.
InitServer ==
    /\ LET s == open(Empty).s
       IN  /\ files = s.files
           /\ writer = s.writer
           /\ readers = s.readers
           /\ index = s.index
           /\ current_gen = s.current_gen
           /\ uncompacted = s.uncompacted
    /\ store_open = TRUE
    /\ lastOp = Op("open", "", "", OkNone, FALSE, NoView, 0)
    /\ model = [k \in Keys |-> NeverSet]
    /\ ServerIdle
    /\ script \in [Conns -> Scripts]

\* Server::start, the accept loop: the stream of connection c comes out of
\* listener.incoming() and a worker is spawned for it.
Accept(c) ==
    /\ pc[c] = "accept"
    /\ pc' = [pc EXCEPT ![c] = "decode"]
    /\ UNCHANGED <<engine, gate, req, resp, inq, outq, script, decoded, answered,
                   lastOp, model, client>>

\* The client of connection c writes its next Request to the socket.
ClientSend(c) ==
    /\ script[c] # <<>>
    /\ inq' = [inq EXCEPT ![c] = Append(@, Head(script[c]))]
    /\ script' = [script EXCEPT ![c] = Tail(@)]
    /\ UNCHANGED <<engine, gate, pc, req, resp, outq, decoded, answered, lastOp,
                   model, client>>

\* A deserializer that takes any bytes for a Request.
req_error_never(r) == FALSE

\* let req = req?: what the stream holds is not the text of a Request.
req_error(r) == r.type \notin {"Set", "Get", "Remove"}

\* req_reader yields an Err: serve returns it, run logs it, the worker ends
\* and the stream is dropped.
DecodeError(c) ==
    /\ pc[c] = "decode"
    /\ inq[c] # <<>>
    /\ req_error(Head(inq[c]))
    /\ pc' = [pc EXCEPT ![c] = "failed"]
    /\ UNCHANGED <<engine, gate, req, resp, inq, outq, script, decoded, answered,
                   lastOp, model, client>>

\* req_reader yields the next Request of the stream.
Decode(c) ==
    /\ pc[c] = "decode"
    /\ inq[c] # <<>>
    /\ ~req_error(Head(inq[c]))
    /\ req' = [req EXCEPT ![c] = Head(inq[c])]
    /\ inq' = [inq EXCEPT ![c] = Tail(@)]
    /\ decoded' = [decoded EXCEPT ![c] = Append(@, Head(inq[c]))]
    /\ pc' = [pc EXCEPT ![c] = "lock"]
    /\ UNCHANGED <<engine, gate, resp, outq, script, answered, lastOp, model,
                   client>>

\* The client has sent everything and closed: req_reader ends, serve
\* returns Ok(()).
Eof(c) ==
    /\ pc[c] = "decode"
    /\ inq[c] = <<>>
    /\ script[c] = <<>>
    /\ pc' = [pc EXCEPT ![c] = "done"]
    /\ UNCHANGED <<engine, gate, req, resp, inq, outq, script, decoded, answered,
                   lastOp, model, client>>

\* let mut lock = self.db.lock().unwrap()
Lock(c) ==
    /\ pc[c] = "lock"
    /\ lock_free(gate)
    /\ gate' = c
    /\ pc' = [pc EXCEPT ![c] = "exec"]
    /\ UNCHANGED <<engine, req, resp, inq, outq, script, decoded, answered,
                   lastOp, model, client>>

\* lock.set(key, value) / lock.get(key) / lock.remove(key)
Exec(c) ==
    /\ pc[c] = "exec"
    /\ LET r == serve_call(Store, req[c])
           compacts == req[c].type = "Set" /\ r.compacted
       IN  /\ Install(r.s)
           /\ resp' = [resp EXCEPT ![c] = serve_response(r.res)]
           /\ lastOp' = Op(IF req[c].type = "Set" THEN "set"
                           ELSE IF req[c].type = "Get" THEN "get" ELSE "remove",
                           req[c].key, req[c].value, r.res, compacts,
                           IF compacts THEN GetAll(r.mid) ELSE NoView, c)
           /\ model' =
                IF req[c].type = "Set" /\ r.res.tag = "Ok"
                THEN [model EXCEPT ![req[c].key] =
                         [st |-> "set", val |-> req[c].value, old |-> FALSE, by |-> c]]
                ELSE IF req[c].type = "Remove" /\ r.res.tag = "Ok"
                THEN [model EXCEPT ![req[c].key] =
                         [st |-> "removed", val |-> "", old |-> FALSE, by |-> c]]
                ELSE model
           /\ answered' = [answered EXCEPT ![c] =
                              Append(@, [req |-> req[c],
                                         resp |-> serve_response(r.res)])]
    /\ pc' = [pc EXCEPT ![c] = "send"]
    /\ UNCHANGED <<store_open, gate, req, inq, outq, script, decoded, client>>

\* The step Exec(c) takes, as pc shows it: the engine call of connection
\* c's worker returns.
ExecDone(c) == pc[c] = "exec" /\ pc' = [pc EXCEPT ![c] = "send"]

\* send_resp!(.., writer), inside the scope of `lock`.
Send(c) ==
    /\ pc[c] = "send"
    /\ outq' = [outq EXCEPT ![c] = send_resp(@, resp[c])]
    /\ pc' = [pc EXCEPT ![c] = "unlock"]
    /\ UNCHANGED <<engine, gate, req, resp, inq, script, decoded, answered,
                   lastOp, model, client>>

\* The match arm ends: `lock` is dropped.
Unlock(c) ==
    /\ pc[c] = "unlock"
    /\ gate' = 0
    /\ pc' = [pc EXCEPT ![c] = "decode"]
    /\ UNCHANGED <<engine, req, resp, inq, outq, script, decoded, answered,
                   lastOp, model, client>>

NextServer ==
    \/ \E c \in Conns : Accept(c)
    \/ \E c \in Conns : ClientSend(c)
    \/ \E c \in Conns : Decode(c)
    \/ \E c \in Conns : DecodeError(c)
    \/ \E c \in Conns : Eof(c)
    \/ \E c \in Conns : Lock(c)
    \/ \E c \in Conns : Exec(c)
    \/ \E c \in Conns : Send(c)
    \/ \E c \in Conns : Unlock(c)

SpecServer == InitServer /\ [][NextServer]_vars

\* Server::new as in InitServer, with a corrupt stream on one connection
\* or on both, or a writer beside it.
InitBroken ==
    /\ LET s == open(Empty).s
       IN  /\ files = s.files
           /\ writer = s.writer
           /\ readers = s.readers
           /\ index = s.index
           /\ current_gen = s.current_gen
           /\ uncompacted = s.uncompacted
    /\ store_open = TRUE
    /\ lastOp = Op("open", "", "", OkNone, FALSE, NoView, 0)
    /\ model = [k \in Keys |-> NeverSet]
    /\ ServerIdle
    /\ script \in [Conns -> {Broken, Writer}]

\* The server with the acceptor and the workers scheduled fairly; the Mutex
\* is handed to a worker that keeps asking for it.
FairSpecServer ==
    /\ InitBroken /\ [][NextServer]_vars
    /\ \A c \in Conns :
          /\ WF_vars(Accept(c))
          /\ WF_vars(Decode(c))
          /\ WF_vars(DecodeError(c))
          /\ WF_vars(Eof(c))
          /\ SF_vars(Lock(c))
          /\ WF_pc(ExecDone(c))
          /\ WF_vars(Send(c))
          /\ WF_vars(Unlock(c))

-----------------------------------------------------------------------------
(* The Client of src/src/client.rs on each connection.  A call of the      *)
(* Client is named by the Request it makes; script[c] holds the calls the  *)
(* caller of connection c's Client still makes, the head being the call in *)
(* progress while cpc[c] = "read".                                         *)

\* The calls of a caller: the scenario's client A (a set, then a get), its
\* client B, callers that remove and then get, and one that calls nothing.
Calls ==
    {<<>>,
     <<ReqSet("a", "2"), ReqGet("a")>>,
     <<ReqGet("a")>>,
     <<ReqRemove("b"), ReqGet("a")>>,
     <<ReqGet("b"), ReqRemove("a"), ReqRemove("a"), ReqGet("b")>>}

\* The directories Server::new may open: an empty one, and one in which an
\* earlier run of the server wrote a = "1" and b = "2".
Stored ==
    {Empty,
     [g \in {1} |-> to_writer(CmdSet("a", "1")) \o to_writer(CmdSet("b", "2"))]}

\* Client::set leaves its Request in the BufWriter (the flush is commented
\* out); Client::get and Client::remove flush.
client_flushes(r) == r.type # "Set"

\* Client::set and Client::get deserialize a Response; Client::remove
\* returns Ok(()) after the flush.
client_reads(r) == r.type # "Remove"

\* The match on the Response: what the call returns.
client_result(r, rsp) ==
    IF rsp.tag = "Err" THEN Err(rsp.val)
    ELSE IF r.type = "Get" THEN rsp
    ELSE OkNone

\* The Responses the Client of connection c has taken off the stream.
ClientRead(c) ==
    Cardinality({i \in 1..Len(returned[c]) : returned[c][i].read # 0})

\* Server::new on one of the directories; every caller has its calls.
InitClient ==
    /\ \E d \in Stored :
          LET s == open(d).s
          IN  /\ files = s.files
              /\ writer = s.writer
              /\ readers = s.readers
              /\ index = s.index
              /\ current_gen = s.current_gen
              /\ uncompacted = s.uncompacted
              /\ model = [k \in Keys |->
                            IF k \in DOMAIN s.index
                            THEN [st |-> "set", val |-> get(s, k).res.val,
                                  old |-> TRUE, by |-> 0]
                            ELSE NeverSet]
    /\ store_open = TRUE
    /\ lastOp = Op("open", "", "", OkNone, FALSE, NoView, 0)
    /\ ServerIdle
    /\ script \in [Conns -> Calls]

\* Client::set / get / remove up to the read of the Response: the Request
\* goes to the BufWriter, is flushed or not, and remove returns.
ClientCall(c) ==
    /\ cpc[c] = "idle"
    /\ script[c] # <<>>
    /\ LET r == Head(script[c])
           buf == Append(wbuf[c], r)
       IN  /\ IF client_flushes(r)
              THEN /\ inq' = [inq EXCEPT ![c] = @ \o buf]
                   /\ wbuf' = [wbuf EXCEPT ![c] = <<>>]
              ELSE /\ wbuf' = [wbuf EXCEPT ![c] = buf]
                   /\ inq' = inq
           /\ IF client_reads(r)
              THEN /\ cpc' = [cpc EXCEPT ![c] = "read"]
                   /\ UNCHANGED <<script, returned>>
              ELSE /\ returned' = [returned EXCEPT ![c] =
                                      Append(@, [req |-> r, res |-> OkNone,
                                                 read |-> 0])]
                   /\ script' = [script EXCEPT ![c] = Tail(@)]
                   /\ cpc' = cpc
    /\ UNCHANGED <<engine, gate, pc, req, resp, outq, decoded, answered, lastOp,
                   model>>

\* Response::deserialize(&mut self.reader) gets the next Response of the
\* stream and the call returns what the match makes of it.
ClientReturn(c) ==
    /\ cpc[c] = "read"
    /\ Len(outq[c]) > ClientRead(c)
    /\ LET n == ClientRead(c) + 1
           r == Head(script[c])
       IN  returned' = [returned EXCEPT ![c] =
                          Append(@, [req |-> r,
                                     res |-> client_result(r, outq[c][n]),
                                     read |-> n])]
    /\ script' = [script EXCEPT ![c] = Tail(@)]
    /\ cpc' = [cpc EXCEPT ![c] = "idle"]
    /\ UNCHANGED <<engine, gate, pc, req, resp, inq, outq, decoded, answered,
                   lastOp, model, wbuf>>

NextClient ==
    \/ \E c \in Conns : Accept(c)
    \/ \E c \in Conns : ClientCall(c)
    \/ \E c \in Conns : ClientReturn(c)
    \/ \E c \in Conns : Decode(c)
    \/ \E c \in Conns : Eof(c)
    \/ \E c \in Conns : Lock(c)
    \/ \E c \in Conns : Exec(c)
    \/ \E c \in Conns : Send(c)
    \/ \E c \in Conns : Unlock(c)

SpecClient == InitClient /\ [][NextClient]_vars

\* The same with the acceptor, the workers and the blocked reads of the
\* Clients scheduled fairly; the Mutex is handed to a worker that keeps
\* asking for it.
FairSpecClient ==
    /\ SpecClient
    /\ \A c \in Conns :
          /\ WF_vars(Accept(c))
          /\ WF_vars(Decode(c))
          /\ WF_vars(Eof(c))
          /\ SF_vars(Lock(c))
          /\ WF_pc(ExecDone(c))
          /\ WF_vars(Send(c))
          /\ WF_vars(Unlock(c))
          /\ WF_vars(ClientReturn(c))

-----------------------------------------------------------------------------
(* Properties of the engine.                                               *)

\* Total bytes of the directory's log files.
RECURSIVE TotalBytes(_)
TotalBytes(f) ==
    IF DOMAIN f = {} THEN 0
    ELSE LET g == CHOOSE x \in DOMAIN f : TRUE
         IN  Len(f[g]) + TotalBytes(Del(f, g))

\* Bytes of the records the index points at.
RECURSIVE LiveBytes(_)
LiveBytes(ix) ==
    IF DOMAIN ix = {} THEN 0
    ELSE LET k == CHOOSE x \in DOMAIN ix : TRUE
         IN  ix[k].len + LiveBytes(Del(ix, k))

\* C1: once set(k,v) has returned Ok, a later get(k) of the same store
\* returns Some(v) unless k was set or removed in between.
C1_GetAfterSet ==
    (/\ lastOp.op = "get"
     /\ model[lastOp.key].st = "set"
     /\ ~model[lastOp.key].old)
        => lastOp.res = OkSome(model[lastOp.key].val)

\* C2: a compaction leaves the result of get(k) as it was for every key k,
\* and UncompactedBytes at 0.
C2_CompactPreserves ==
    lastOp.compacted =>
        /\ \A k \in Keys : get(Store, k).res = lastOp.before[k]
        /\ uncompacted = 0

\* C3: after set(k,v) returned Ok, close and open of the same directory,
\* get(k) returns Some(v), also after compactions of the reopened store.
C3_Durability ==
    (/\ lastOp.op = "get"
     /\ model[lastOp.key].st = "set"
     /\ model[lastOp.key].old)
        => lastOp.res = OkSome(model[lastOp.key].val)

\* C4: after remove(k) returned Ok, get(k) returns None until k is set
\* again, across compactions and close/open.
C4_GetAfterRemove ==
    (lastOp.op = "get" /\ model[lastOp.key].st = "removed")
        => lastOp.res = OkNone

\* C5: remove(k) of a key absent from the index returns Err(KeyNotFound) and
\* appends nothing: the files, the index, the writer, UncompactedBytes and
\* the current generation are as before the call.
C5_RemoveAbsent ==
    [][(lastOp'.op = "remove" /\ lastOp'.key \notin DOMAIN index)
          => /\ lastOp'.res = Err("KeyNotFound")
             /\ UNCHANGED <<files, index, writer, uncompacted, current_gen>>]_vars

\* C5 witness: a remove of a key that an earlier remove had removed.
C5_Witness ==
    /\ lastOp.op = "remove"
    /\ lastOp.res = Err("KeyNotFound")
    /\ model[lastOp.key].st = "removed"

C7_GetFrame ==
    [][lastOp'.op = "get"
          => /\ UNCHANGED <<files, index, writer, uncompacted, current_gen>>
             /\ GetAll(compact(Store))' = GetAll(compact(Store))]_vars

\* The bytes of file gen that the locator ops addresses.
Span(f, ops) ==
    IF ops.gen \in DOMAIN f
    THEN SubSeq(f[ops.gen], ops.offset + 1,
                Min(ops.offset + ops.len, Len(f[ops.gen])))
    ELSE <<>>

\* C18: every Index entry k -> {gen, offset, len} addresses, in a file of
\* the directory that has a reader, a span of len bytes that is one whole
\* Set record with key k.
C18_Locators ==
    store_open =>
        \A k \in DOMAIN index :
            /\ index[k].gen \in DOMAIN readers
            /\ index[k].gen \in DOMAIN files
            /\ Len(Span(files, index[k])) = index[k].len
            /\ from_reader(Span(files, index[k])).kind = "ok"
            /\ from_reader(Span(files, index[k])).cmd.type = "Set"
            /\ from_reader(Span(files, index[k])).cmd.key = k

\* The bytes of file gen, read record by record from offset, that a
\* compaction would drop: the Set records that are not the locator of
\* their key in ix, and the Remove records.
RECURSIVE StaleFrom(_, _, _, _)
StaleFrom(gen, file, offset, ix) ==
    LET p == ParseCommand(file, offset)
        live == /\ p.cmd.type = "Set"
                /\ p.cmd.key \in DOMAIN ix
                /\ ix[p.cmd.key] = CommandOps(gen, offset, p.end)
    IN  IF p.kind # "ok" THEN 0
        ELSE (IF live THEN 0 ELSE p.end - offset) + StaleFrom(gen, file, p.end, ix)

RECURSIVE StaleBytes(_, _)
StaleBytes(f, ix) ==
    IF DOMAIN f = {} THEN 0
    ELSE LET g == CHOOSE x \in DOMAIN f : TRUE
         IN  StaleFrom(g, f[g], 0, ix) + StaleBytes(Del(f, g), ix)

\* C19: after open and after every set, remove or compaction that returned
\* Ok, UncompactedBytes is the length of the Set records on disk that are
\* not the locator of their key plus the length of the Remove records on
\* disk, and the replay of an open of the directory computes the same value.
C19_Uncompacted ==
    (/\ store_open
     /\ lastOp.op \in {"open", "set", "remove", "compact"}
     /\ lastOp.res = OkNone)
        => /\ uncompacted = StaleBytes(files, index)
           /\ open(files).ok => open(files).s.uncompacted = uncompacted

\* The highest generation of the directory, 0 when it has no log file.
LastGen(f) ==
    IF DOMAIN f = {} THEN 0
    ELSE CHOOSE g \in DOMAIN f : \A h \in DOMAIN f : h <= g

\* C20: the writer's file is the log file of current_gen, the highest
\* generation of the directory, and the writer's offset is the length of
\* that file; current_gen does not decrease while the store lives, the
\* highest generation of the directory never decreases, and an open takes
\* the generation after the highest it finds, so that the log files a step
\* creates are all of generations the directory did not have.
C20_Generations ==
    /\ [](store_open =>
            /\ writer.gen = current_gen
            /\ current_gen \in DOMAIN files
            /\ current_gen = LastGen(files)
            /\ writer.offset = Len(files[current_gen]))
    /\ [][/\ (store_open /\ store_open') => current_gen' >= current_gen
          /\ (~store_open /\ store_open') => current_gen' = LastGen(files) + 1
          /\ LastGen(files') >= LastGen(files)
          /\ \A g \in DOMAIN files' \ DOMAIN files : g > LastGen(files)]_vars

\* C20 witness: a store reopened on the directory a compaction left, at
\* the fourth generation, and written to.
C20_Witness ==
    /\ store_open
    /\ lastOp.op = "set"
    /\ current_gen = LastGen(files)
    /\ \E g \in DOMAIN files : g < current_gen /\ files[g] # <<>>
    /\ DOMAIN files = {current_gen - 2, current_gen - 1, current_gen}

\* C21: while the store is open the generations that have a reader are
\* exactly those of the directory's log files, and after a compaction they
\* are compaction_gen and the new current_gen: no file of a generation
\* below compaction_gen is left.
C21_Readers ==
    store_open =>
        /\ DOMAIN readers = DOMAIN files
        /\ (lastOp.op \in {"set", "compact"} /\ lastOp.compacted)
              => DOMAIN files = {current_gen - 1, current_gen}

\* C21 witness: a compaction of a reopened store, which had the files of
\* two generations to delete, one of them with records.
C21_Witness ==
    /\ store_open
    /\ lastOp.op = "compact"
    /\ current_gen = MaxGen
    /\ DOMAIN index # {}
    /\ DOMAIN files = {MaxGen - 1, MaxGen}

\* Index and log of store s agree, m recording the live Set of each key.
Consistent(s, m) ==
    /\ s.writer.gen = s.current_gen
    /\ \A k \in DOMAIN s.index : s.index[k].gen \in DOMAIN s.readers
    /\ \A k \in Keys :
          get(s, k).res = IF m[k].st = "set" THEN OkSome(m[k].val) ELSE OkNone

\* C23: when a set has returned Err because its compaction failed, the
\* next engine call that returns Ok leaves the writer on the generation new
\* locators record, a reader for every locator's generation, and get(k)
\* returning the value of k's live Set for every key k.
C23_AfterFailure ==
    [][(/\ lastOp.res = Err("Io")
        /\ store_open'
        /\ lastOp'.op \in {"set", "get", "remove"}
        /\ lastOp'.res.tag = "Ok")
          => Consistent(Store, model)']_vars

\* C16: when the process stopped inside a set, after any prefix of the
\* record, the next open of the directory succeeds and every key has the
\* get result it had just before that set, except that the key of the set
\* may have the value of the set.
C16_CrashInSet ==
    lastOp.op = "crash_set" =>
        LET o == open(files)
        IN  /\ o.ok
            /\ \A k \in Keys :
                  \/ get(o.s, k).res = lastOp.before[k]
                  \/ k = lastOp.key /\ get(o.s, k).res = OkSome(lastOp.val)

\* C17: when the process stopped inside the copy loop of a compaction, no
\* older file removed yet, the next open of the directory succeeds and every
\* key has the get result it had when the compaction started.
C17_CrashInCompact ==
    lastOp.op = "crash_compact" =>
        LET o == open(files)
        IN  /\ o.ok
            /\ GetAll(o.s) = lastOp.before

\* C24: after a crash while a compaction removes the stale files, whichever
\* of them are already removed, the next open gives for every key the same
\* get result as it gives after the completed compaction, and a key removed
\* before the compaction is not present.
C24_CrashInCleanup ==
    lastOp.op = "crash_cleanup" =>
        LET o == open(files)
        IN  /\ o.ok
            /\ GetAll(o.s) = lastOp.before
            /\ \A k \in Keys \ {lastOp.key} :
                  model[k].st = "removed" => get(o.s, k).res = OkNone

-----------------------------------------------------------------------------
(* Properties of the server.                                               *)

\* Everything connection c's client sends, sent or not.
Original(c) == decoded[c] \o inq[c] \o script[c]

ReadOnly(q) == \A i \in 1..Len(q) : q[i].type = "Get"

PipelineResponses ==
    <<OkNone, OkNone, OkSome("1"), OkSome("2"), OkNone, OkNone>>

\* C8: on each connection the i-th Response written is the Response made
\* for the i-th Request decoded, whatever is pipelined and whatever the
\* other connection does; and the pipeline set(a,1), set(b,2), get(a),
\* get(b), rm(a), get(a), beside a connection that writes nothing, is
\* answered Ok(null), Ok(null), Ok("1"), Ok("2"), Ok(null), Ok(null).
C8_ResponseOrder ==
    \A c \in Conns :
        /\ Len(outq[c]) <= Len(answered[c])
        /\ Len(answered[c]) <= Len(decoded[c])
        /\ \A i \in 1..Len(outq[c]) :
              /\ outq[c][i] = answered[c][i].resp
              /\ answered[c][i].req = decoded[c][i]
        /\ (/\ Original(c) = Pipeline
            /\ \A o \in Conns \ {c} : ReadOnly(Original(o)))
              => outq[c] = SubSeq(PipelineResponses, 1, Len(outq[c]))

\* C8 witness: the whole pipeline answered on one connection while the
\* other connection was served too, with Requests waiting in the socket.
C8_Witness ==
    \E c \in Conns, o \in Conns :
        /\ c # o
        /\ Original(c) = Pipeline
        /\ Len(outq[c]) = 6
        /\ Len(outq[o]) = 1
        /\ Len(inq[o]) = 1

\* C9: a Get(k) served by a worker after another connection's Set(k,v) was
\* answered Ok, with no Set or Remove of k in between, is answered Ok(v).
C9_Visibility ==
    (/\ lastOp.op = "get"
     /\ lastOp.conn # 0
     /\ pc[lastOp.conn] = "send"
     /\ model[lastOp.key].st = "set"
     /\ model[lastOp.key].by # lastOp.conn)
        => resp[lastOp.conn] = OkSome(model[lastOp.key].val)

\* A worker is between self.db.lock() and the drop of the guard.
Holding(c) == pc[c] \in {"exec", "send", "unlock"}

\* C10: the workers that are in an engine call, or past it with the guard
\* not yet dropped, are at most one, and it is the one the Mutex records.
C10_MutualExclusion ==
    \A c \in Conns :
        Holding(c) => /\ gate = c
                      /\ \A o \in Conns \ {c} : ~Holding(o)

\* C10 witness: a worker's set has just compacted under the gate while the
\* other worker waits for the Mutex.
C10_Witness ==
    \E c \in Conns, o \in Conns :
        /\ c # o
        /\ pc[c] = "send"
        /\ lastOp.conn = c
        /\ lastOp.compacted
        /\ pc[o] = "lock"

\* The Response specified for Request r when m records, per key, the last
\* Set or Remove that succeeded.
Specified(r, m) ==
    IF r.type = "Set" THEN OkNone
    ELSE IF r.type = "Get"
    THEN (IF m[r.key].st = "set" THEN OkSome(m[r.key].val) ELSE OkNone)
    ELSE (IF m[r.key].st = "set" THEN OkNone ELSE Err("Key not found"))

\* C14: the Response a worker makes for a Request is the specified one
\* (Set: Ok(null); Get: Ok(value) of a present key, Ok(null) of an absent
\* one; Remove: Ok(null) of a present key, Err("Key not found") of an absent
\* one), and a worker ends only at the end of its stream or at bytes that
\* are no Request, never after a Response.
C14_Responses ==
    [][\A c \in Conns :
          /\ (pc[c] = "exec" /\ pc'[c] = "send")
                => resp'[c] = Specified(req[c], model)
          /\ (pc[c] # pc'[c] /\ pc'[c] \in {"done", "failed"})
                => /\ pc[c] = "decode"
                   /\ inq[c] = <<>> \/ req_error(Head(inq[c]))]_vars

\* Everything written to connection c's socket so far.
Arrived(c) == decoded[c] \o inq[c]

\* The worker of connection c has nothing left to do: it has ended on a
\* decode error, or it has answered every Request that arrived.
Drained(c) ==
    \/ pc[c] = "failed"
    \/ /\ pc[c] \in {"decode", "done"}
       /\ inq[c] = <<>>
       /\ Len(outq[c]) = Len(decoded[c])

\* What a decode error on connection c leaves behind.
Isolated(c) ==
    /\ gate # c
    /\ Len(answered[c]) = Len(decoded[c])
    /\ inq[c] # <<>> /\ Head(inq[c]) = BadReq

\* C15: a decode error ends the worker of its connection and nothing else:
\* the worker does not hold the Mutex, it has decoded and served only what
\* came before the bytes that are no Request, and on every connection,
\* whatever has happened on the other one, the Requests that arrive with
\* only Requests before them are all answered in the end, each with the
\* Response made for it.
C15_Isolation ==
    /\ [](\A c \in Conns :
            /\ pc[c] = "failed" => Isolated(c)
            /\ \A i \in 1..Len(decoded[c]) : decoded[c][i] # BadReq
            /\ \A i \in 1..Len(outq[c]) :
                  /\ outq[c][i] = answered[c][i].resp
                  /\ answered[c][i].req = Arrived(c)[i])
    /\ \A c \in Conns : <>[]Drained(c)

\* C15 witness: the worker of one connection has ended on a decode error
\* while the other connection, with all its Requests still to send, has
\* not come out of the accept loop yet.
C15_Witness ==
    \E c \in Conns, o \in Conns :
        /\ c # o
        /\ pc[c] = "failed"
        /\ pc[o] = "accept"
        /\ script[o] = Writer

\* C22: a worker has released the gate when it writes and flushes the
\* Response to its socket: no worker is in send_resp! with the Mutex held.
C22_SendOutsideGate ==
    \A c \in Conns : pc[c] = "send" => gate # c

-----------------------------------------------------------------------------
(* Properties of the Client.                                               *)

\* The Requests of the calls connection c's Client has made, in call order.
Requested(c) ==
    [i \in 1..Len(returned[c]) |-> returned[c][i].req]
        \o (IF cpc[c] = "read" THEN <<Head(script[c])>> ELSE <<>>)

\* C11: every Client call makes one Request and reads one Response: the
\* Requests on their way are those of the calls made, the i-th call that
\* returned read the i-th Response of the connection, which is the one to
\* its own Request, and returned what that Response says.
C11_OwnResponse ==
    \A c \in Conns :
        /\ decoded[c] \o inq[c] \o wbuf[c] = Requested(c)
        /\ \A i \in 1..Len(returned[c]) :
              /\ returned[c][i].read = i
              /\ i <= Len(answered[c])
              /\ answered[c][i].req = returned[c][i].req
              /\ returned[c][i].res =
                    client_result(returned[c][i].req, answered[c][i].resp)

\* C12: under fair scheduling every Client::set that was called returns.
C12_SetReturns ==
    \A c \in Conns :
        (cpc[c] = "read" /\ Head(script[c]).type = "Set") ~> (cpc[c] = "idle")

\* C13: a call whose Request the server answered with Err(message) returns
\* an error carrying the message, and a call returns Ok only if the server
\* answered its Request with Ok.
C13_ErrSurfaced ==
    \A c \in Conns :
        \A i \in 1..Min(Len(returned[c]), Len(answered[c])) :
            /\ answered[c][i].req = returned[c][i].req
            /\ answered[c][i].resp.tag = "Err"
                  => returned[c][i].res = Err(answered[c][i].resp.val)
            /\ returned[c][i].res.tag = "Ok" => answered[c][i].resp.tag = "Ok"

====
